---- MODULE Spec2Model ----
(***************************************************************************)
(* A model of alembic_utils/pg_function.py: PGFunction, its comparison and  *)
(* naming helpers, the diff get_required_migration_op run statement by      *)
(* statement against a PostgreSQL catalog, the four reversible operations   *)
(* with their implementations and renderers, and register_functions.        *)
(*                                                                          *)
(* Text is a sequence of one-character strings.  The database is the pair   *)
(* of the schemas that exist and the catalog rows of the routines in them.  *)
(***************************************************************************)
EXTENDS Naturals, Sequences, FiniteSets

\* ------------------------------------------------------------------ bounds

\* Longest definition text of a desired PGFunction.
MaxLen == 3
\* Longest signature text of a desired PGFunction.
MaxSigLen == 2
\* Most get_required_migration_op calls one session makes for one definition.
MaxCalls == 2
\* Most definitions handed to register_functions.
MaxFuncs == 2

\* -------------------------------------------------------------------- text

Whitespace == {" ", "\n"}
\* Characters of a definition: a letter in both cases, a blank, a line break.
DefChars == {"s", "S", " ", "\n"}
\* Characters of a signature: a letter in both cases, a blank, and the
\* parenthesised argument list, kept as the one character "(" it starts with.
SigChars == {"f", "F", " ", "("}

RECURSIVE TextsOf(_, _)
TextsOf(chars, n) ==
    IF n = 0 THEN {<<>>}
    ELSE LET shorter == TextsOf(chars, n - 1)
         IN  shorter \cup {Append(t, c) : t \in shorter, c \in chars}

\* str.lower() on one character and on a text.
LowerChar(c) ==
    CASE c = "S" -> "s"
      [] c = "F" -> "f"
      [] c = "P" -> "p"
      [] OTHER -> c

lower(text) == [i \in 1..Len(text) |-> LowerChar(text[i])]

\* str.strip(): leading and trailing whitespace removed.
RECURSIVE lstrip(_)
lstrip(text) ==
    IF text # <<>> /\ Head(text) \in Whitespace THEN lstrip(Tail(text)) ELSE text

RECURSIVE rstrip(_)
rstrip(text) ==
    IF text # <<>> /\ text[Len(text)] \in Whitespace
    THEN rstrip(SubSeq(text, 1, Len(text) - 1))
    ELSE text

strip(text) == rstrip(lstrip(text))

\* str.split(): the maximal runs of non-whitespace characters, in order.
RECURSIVE split(_)
split(text) ==
    LET t == lstrip(text)
        FirstSpace == IF \E i \in 1..Len(t) : t[i] \in Whitespace
                      THEN CHOOSE i \in 1..Len(t) :
                               /\ t[i] \in Whitespace
                               /\ \A j \in 1..(i - 1) : t[j] \notin Whitespace
                      ELSE Len(t) + 1
    IN  IF t = <<>> THEN <<>>
        ELSE <<SubSeq(t, 1, FirstSpace - 1)>> \o split(SubSeq(t, FirstSpace, Len(t)))

\* sep.join(words)
RECURSIVE join(_, _)
join(sep, words) ==
    IF words = <<>> THEN <<>>
    ELSE IF Len(words) = 1 THEN words[1]
    ELSE words[1] \o sep \o join(sep, Tail(words))

\* text.split("(")[0]: the text before the first parenthesis.
BeforeParen(text) ==
    IF \E i \in 1..Len(text) : text[i] = "("
    THEN SubSeq(text, 1, (CHOOSE i \in 1..Len(text) :
                              /\ text[i] = "("
                              /\ \A j \in 1..(i - 1) : text[j] # "(") - 1)
    ELSE text

\* PGFunction._normalize_whitespace with base_whitespace " ".
_normalize_whitespace(text) == join(<<" ">>, split(text))

\* ------------------------------------------------------------- PGFunction

\* The scratch schema of a diff, the literal of source lines 78 and 92.
ScratchSchema == <<"alembic_autogen">>

\* The absent value (Python's None), unequal to every PGFunction.
None == [none |-> TRUE]

PGFunction(schema, signature, definition) ==
    [schema |-> schema, signature |-> signature, definition |-> definition]

\* PGFunction.from_sql on a statement "create or replace function
\* {schema}.{signature} returns {definition}", held by its three fields:
\* sql.strip() and the {:s} separators of the template take the whitespace
\* before the schema, after the signature and around the definition.  A
\* statement with no text after "returns" does not match the template.
from_sql(sql) ==
    IF strip(sql.definition) = <<>> \/ sql.schema = <<>> \/ sql.signature = <<>>
    THEN None
    ELSE PGFunction(lstrip(sql.schema), rstrip(sql.signature), strip(sql.definition))

\* Faulty variant of is_equal_definition: the body of is_equal_signature
\* copied without changing the field it reads.
is_equal_definition_of_signature(a, other) ==
    _normalize_whitespace(a.signature) = _normalize_whitespace(other.signature)

is_equal_definition(a, other) ==
    _normalize_whitespace(a.definition) = _normalize_whitespace(other.definition)

is_equal_signature(a, other) ==
    /\ _normalize_whitespace(a.signature) = _normalize_whitespace(other.signature)
    /\ a.schema = other.schema

\* hashlib.md5(...).hexdigest(), taken as collision-free: one character that
\* stands for the digest of exactly this text.
md5(text) == [digest_of |-> text]

\* Faulty variant of to_variable_name: the schema is left out of the name.
to_variable_name_without_schema(a) ==
    LET function_name == lower(strip(BeforeParen(a.signature)))
        signature == _normalize_whitespace(lower(a.signature))
        signature_md5 == md5(signature)
    IN  function_name \o <<"_">> \o <<signature_md5>>

to_variable_name(a) ==
    LET schema_name == strip(lower(a.schema))
        function_name == lower(strip(BeforeParen(a.signature)))
        signature == _normalize_whitespace(lower(a.signature))
        signature_md5 == md5(signature)
    IN  schema_name \o <<"_">> \o function_name \o <<"_">> \o <<signature_md5>>

to_sql_statement_create(a) == [verb |-> "CREATE FUNCTION", target |-> a]
to_sql_statement_drop(a) == [verb |-> "DROP FUNCTION", target |-> a]
to_sql_statement_create_or_replace(a) ==
    [verb |-> "CREATE OR REPLACE FUNCTION", target |-> a]

\* ---------------------------------------------------------------- database

\* How PostgreSQL stores what a statement names.  An unquoted identifier is
\* folded to lower case; the whitespace around a name or around the
\* definition means nothing; the catalog gives a definition back with its
\* keywords and type names in lower case and the whitespace inside it as it
\* was written.
DbSchema(name) == lower(strip(name))
DbSignature(signature) == lower(join(<<>>, split(signature)))
DbDefinition(definition) == lower(strip(definition))

\* A definition with no text is a syntax error.
DbAccepts(definition) == strip(definition) # <<>>

DbRow(t) ==
    [schema |-> DbSchema(t.schema),
     signature |-> DbSignature(t.signature),
     definition |-> DbDefinition(t.definition)]

SameRoutine(r, row) == r.schema = row.schema /\ r.signature = row.signature

\* The outcome of one statement: whether it ran, and the database after it
\* (unchanged when it raised).
Ran(newdb) == [ok |-> TRUE, db |-> newdb]
Raised(olddb) == [ok |-> FALSE, db |-> olddb]

\* connection.execute / operations.execute of a statement.
execute(d, sql) ==
    LET row == DbRow(sql.target)
        same == {r \in d.routines : SameRoutine(r, row)}
    IN  CASE sql.verb = "CREATE FUNCTION" ->
               IF /\ row.schema \in d.schemas
                  /\ DbAccepts(sql.target.definition)
                  /\ same = {}
               THEN Ran([d EXCEPT !.routines = @ \cup {row}])
               ELSE Raised(d)
          [] sql.verb = "CREATE OR REPLACE FUNCTION" ->
               IF row.schema \in d.schemas /\ DbAccepts(sql.target.definition)
               THEN Ran([d EXCEPT !.routines = (@ \ same) \cup {row}])
               ELSE Raised(d)
          [] sql.verb = "DROP FUNCTION" ->
               IF same # {}
               THEN Ran([d EXCEPT !.routines = @ \ same])
               ELSE Raised(d)
          [] sql.verb = "create schema if not exists" ->
               Ran([d EXCEPT !.schemas = @ \cup {DbSchema(sql.target)}])
          [] sql.verb = "drop schema cascade" ->
               IF DbSchema(sql.target) \in d.schemas
               THEN Ran([schemas |-> d.schemas \ {DbSchema(sql.target)},
                         routines |-> {r \in d.routines :
                                          r.schema # DbSchema(sql.target)}])
               ELSE Raised(d)

\* pg_get_functiondef(p.oid): the row as a create-or-replace statement.
pg_get_functiondef(row) ==
    [schema |-> row.schema, signature |-> row.signature,
     definition |-> <<" ">> \o row.definition \o <<"\n">>]

\* get_db_functions: the routines of the schemas whose name is LIKE the
\* pattern (a name without wildcards matches itself alone), each parsed back.
get_db_functions(d, schema) ==
    {from_sql(pg_get_functiondef(r)) : r \in {x \in d.routines : x.schema = schema}}

get_db_definition(a, d) ==
    LET db_functions == get_db_functions(d, a.schema)
        matches == {x \in db_functions : is_equal_signature(a, x)}
    IN  IF matches = {} THEN None ELSE CHOOSE x \in matches : TRUE

\* ------------------------------------------------------------------ state

Procs == {1, 2}

VARIABLES
    db,                   \* [schemas, routines]: the database
    pc,                   \* per connection: where its diff call stands
    self,                 \* per connection: the PGFunction being diffed
    db_live,              \* per connection: local of get_required_migration_op
    temporary_db_version, \* per connection: local of get_required_migration_op
    result,               \* per connection: what the last call returned
    before,               \* per connection: the database when the call began
    touched,              \* per connection: another connection ran a scratch
                          \*   statement while this call had its scratch routine
    calls,                \* calls begun
    outcomes,             \* the calls that ended, in order: [of, result]
    first,                \* the database before the first call
    phase,                \* where a migration stands
    op,                   \* the upgrade operation the diff asked for
    down,                 \* its reverse, the downgrade operation
    snippet,              \* the downgrade operation as rendered
    upgraded,             \* the database once the upgrade had run
    pg_functions,         \* the list given to register_functions
    index,                \* the position of the hook's loop in it
    upgrade_ops,          \* upgrade_ops.ops
    initial_ops,          \* upgrade_ops.ops when the hook began
    names                 \* per definition: its to_variable_name, once taken

callvars == <<pc, self, db_live, temporary_db_version, result, before, touched,
              calls, outcomes, first>>

migvars == <<phase, op, down, snippet, upgraded>>

hookvars == <<pg_functions, index, upgrade_ops, initial_ops>>

vars == <<db, callvars, migvars, hookvars, names>>

\* ------------------------------------------------------------------ inputs

Definitions == TextsOf(DefChars, MaxLen)

\* Schemas a desired definition names: the usual one as the catalog spells
\* it, the same in another case, and the name the diff uses as scratch.
Schemas == {<<"p">>, <<"P">>, ScratchSchema}

\* Signatures a diffed definition carries: as the catalog spells it, in
\* another case, and with a blank before the argument list.
DiffSignatures == {<<"f", "(">>, <<"F", "(">>, <<"f", " ", "(">>}

DiffFunctions ==
    {PGFunction(s, g, d) : s \in Schemas, g \in DiffSignatures, d \in Definitions}

\* Bodies a live routine can have: what the catalog holds for a definition
\* the database accepted.
LiveBodies == {DbDefinition(d) : d \in {x \in Definitions : DbAccepts(x)}}

\* A routine of the schema that no diffed definition names.
Unrelated(schema) ==
    [schema |-> schema, signature |-> <<"g", "(">>, definition |-> <<"s">>]

\* The databases a diff of t may meet: t's schema exists and holds an
\* unrelated routine, and t's routine is absent or live with some body.
InitialDbs(t) ==
    LET s == DbSchema(t.schema)
        live == {{}} \cup {{[schema |-> s, signature |-> DbSignature(t.signature),
                             definition |-> b]} : b \in LiveBodies}
    IN  {[schemas |-> {<<"p">>, s}, routines |-> {Unrelated(s)} \cup l] : l \in live}

\* ----------------------------------------- get_required_migration_op (67-97)

Goto(p, line) == pc' = [pc EXCEPT ![p] = line]

Return(p, value) ==
    /\ pc' = [pc EXCEPT ![p] = "returned"]
    /\ result' = [result EXCEPT ![p] = value]
    /\ outcomes' = Append(outcomes, [of |-> self[p], result |-> value])

Raise(p) ==
    /\ pc' = [pc EXCEPT ![p] = "raised"]
    /\ result' = [result EXCEPT ![p] = "raised"]
    /\ outcomes' = Append(outcomes, [of |-> self[p], result |-> "raised"])

\* The calls that hold a routine in the scratch schema: between the
\* statement of line 79 and the one of line 92.
InScratch(p) == pc[p] \in {"line80", "line83", "line86"}

\* p runs a statement on the scratch schema.
Touch(p) ==
    touched' = [q \in Procs |-> touched[q] \/ (q # p /\ InScratch(q))]

\* A caller begins a call of function.get_required_migration_op(connection).
Call(p, function) ==
    /\ pc[p] \in {"idle", "returned", "raised"}
    /\ self' = [self EXCEPT ![p] = function]
    /\ calls' = calls + 1
    /\ before' = [before EXCEPT ![p] = db]
    /\ first' = IF calls = 0 THEN db ELSE first
    /\ touched' = [touched EXCEPT ![p] = FALSE]
    /\ Goto(p, "line70")
    /\ UNCHANGED <<db, db_live, temporary_db_version, result, outcomes>>

\* Lines 70-74.
Line70(p) ==
    /\ pc[p] = "line70"
    /\ db_live' = [db_live EXCEPT ![p] = get_db_definition(self[p], db)]
    /\ IF db_live'[p] = None
       THEN Return(p, "CreateFunctionOp")
       ELSE Goto(p, "line79") /\ UNCHANGED <<result, outcomes>>
    /\ UNCHANGED <<db, self, temporary_db_version, before, touched, calls, first>>

\* Line 78.
adjusted_target(a) == PGFunction(ScratchSchema, a.signature, a.definition)

\* Lines 77-79.
Line79(p) ==
    /\ pc[p] = "line79"
    /\ db' = execute(db, [verb |-> "create schema if not exists",
                          target |-> adjusted_target(self[p]).schema]).db
    /\ Touch(p)
    /\ Goto(p, "line80")
    /\ UNCHANGED <<self, db_live, temporary_db_version, result, before, calls,
                   outcomes, first>>

\* Lines 80-82.
Line80(p) ==
    /\ pc[p] = "line80"
    /\ LET done == execute(db, to_sql_statement_create_or_replace(
                                   adjusted_target(self[p])))
       IN  /\ db' = done.db
           /\ IF done.ok
              THEN Goto(p, "line83") /\ UNCHANGED <<result, outcomes>>
              ELSE Raise(p)
    /\ Touch(p)
    /\ UNCHANGED <<self, db_live, temporary_db_version, before, calls, first>>

\* Line 83.
Line83(p) ==
    /\ pc[p] = "line83"
    /\ temporary_db_version' =
           [temporary_db_version EXCEPT
               ![p] = get_db_definition(adjusted_target(self[p]), db)]
    /\ Goto(p, "line86")
    /\ UNCHANGED <<db, self, db_live, result, before, touched, calls, outcomes,
                   first>>

\* Faulty variant of needs_update: the two branches of lines 86-89 swapped.
needs_update_swapped(live, temporary) == is_equal_definition(live, temporary)

\* Lines 85-90.
needs_update(live, temporary) == ~is_equal_definition(live, temporary)

\* Lines 85-97: is_equal_definition on None raises AttributeError before the
\* schema is dropped; a failed drop raises too.
Line86(p) ==
    /\ pc[p] = "line86"
    /\ IF temporary_db_version[p] = None
       THEN Raise(p) /\ UNCHANGED <<db, touched>>
       ELSE LET done == execute(db, [verb |-> "drop schema cascade",
                                     target |-> ScratchSchema])
            IN  /\ db' = done.db
                /\ Touch(p)
                /\ IF ~done.ok THEN Raise(p)
                   ELSE IF needs_update(db_live[p], temporary_db_version[p])
                   THEN Return(p, "ReplaceFunctionOp")
                   ELSE Return(p, "None")
    /\ UNCHANGED <<self, db_live, temporary_db_version, before, calls, first>>

get_required_migration_op(p) ==
    \/ Line70(p)
    \/ Line79(p)
    \/ Line80(p)
    \/ Line83(p)
    \/ Line86(p)

\* ------------------------------------------------- one connection, diffing

NoCall ==
    /\ db_live = [p \in Procs |-> None]
    /\ temporary_db_version = [p \in Procs |-> None]
    /\ result = [p \in Procs |-> "pending"]
    /\ touched = [p \in Procs |-> FALSE]
    /\ before = [p \in Procs |-> db]
    /\ first = db
    /\ calls = 0
    /\ outcomes = <<>>

NoMigration ==
    /\ phase = "diffing"
    /\ op = None
    /\ down = None
    /\ snippet = None
    /\ upgraded = db

NoHook ==
    /\ pg_functions = <<>>
    /\ index = 1
    /\ upgrade_ops = <<>>
    /\ initial_ops = <<>>

NoNames == names = [p \in Procs |-> None]

Init ==
    /\ \E t \in DiffFunctions :
          /\ self = [p \in Procs |-> t]
          /\ db \in InitialDbs(t)
    /\ pc = [p \in Procs |-> IF p = 1 THEN "idle" ELSE "off"]
    /\ NoCall
    /\ NoMigration
    /\ NoHook
    /\ NoNames

\* What a diff leaves alone.
DiffFrame == UNCHANGED <<migvars, hookvars, names>>

Next ==
    \/ (calls < MaxCalls /\ Call(1, self[1]) /\ DiffFrame)
    \/ (Line70(1) /\ DiffFrame)
    \/ (Line79(1) /\ DiffFrame)
    \/ (Line80(1) /\ DiffFrame)
    \/ (Line83(1) /\ DiffFrame)
    \/ (Line86(1) /\ DiffFrame)

Spec == Init /\ [][Next]_vars

\* -------------------------------------------------- operations (161-205)

Op(kind, target) == [kind |-> kind, target |-> target]

\* Faulty variant of reverse: DropFunctionOp.reverse builds a DropFunctionOp.
reverse_drop_to_drop(o) ==
    CASE o.kind = "CreateFunctionOp" -> Op("DropFunctionOp", o.target)
      [] o.kind = "DropFunctionOp" -> Op("DropFunctionOp", o.target)
      [] o.kind = "ReplaceFunctionOp" -> Op("RevertFunctionOp", o.target)

\* CreateFunctionOp.reverse, DropFunctionOp.reverse, ReplaceFunctionOp.reverse.
reverse(o) ==
    CASE o.kind = "CreateFunctionOp" -> Op("DropFunctionOp", o.target)
      [] o.kind = "DropFunctionOp" -> Op("CreateFunctionOp", o.target)
      [] o.kind = "ReplaceFunctionOp" -> Op("RevertFunctionOp", o.target)

create_function(d, operation) ==
    execute(d, to_sql_statement_create(operation.target))

drop_function(d, operation) ==
    execute(d, to_sql_statement_drop(operation.target))

replace_or_revert_function(d, operation) ==
    execute(d, to_sql_statement_create_or_replace(operation.target))

\* Operations.implementation_for: the implementation of each operation.
invoke(d, o) ==
    CASE o.kind = "CreateFunctionOp" -> create_function(d, o)
      [] o.kind = "DropFunctionOp" -> drop_function(d, o)
      [] o.kind \in {"ReplaceFunctionOp", "RevertFunctionOp"} ->
             replace_or_revert_function(d, o)

\* ------------------------------------------------------ renderers (213-268)

\* A rendered snippet: the variable it names, the PGFunction literal it
\* builds and the operation it calls on it.
Snippet(var_name, literal, kind) ==
    [var_name |-> var_name, literal |-> literal, kind |-> kind]

render_create_function(o) ==
    Snippet(to_variable_name(o.target),
            PGFunction(o.target.schema, o.target.signature, o.target.definition),
            "CreateFunctionOp")

render_drop_function(o) ==
    Snippet(to_variable_name(o.target),
            PGFunction(o.target.schema, o.target.signature, <<"# Not Used">>),
            "DropFunctionOp")

render_replace_function(o) ==
    Snippet(to_variable_name(o.target),
            PGFunction(o.target.schema, o.target.signature, o.target.definition),
            "ReplaceFunctionOp")

\* Faulty variant of render_revert_function: the operation's own target is
\* rendered, as render_replace_function does.
render_revert_function_of_target(o, d) ==
    Snippet(to_variable_name(o.target),
            PGFunction(o.target.schema, o.target.signature, o.target.definition),
            "ReplaceFunctionOp")

\* The definition live in the database is looked up and rendered; with no
\* live routine db_target is None and reading its fields raises (None here).
render_revert_function(o, d) ==
    LET db_target == get_db_definition(o.target, d)
    IN  IF db_target = None THEN None
        ELSE Snippet(to_variable_name(o.target),
                     PGFunction(db_target.schema, db_target.signature,
                                db_target.definition),
                     "ReplaceFunctionOp")

\* renderers.dispatch_for
render(o, d) ==
    CASE o.kind = "CreateFunctionOp" -> render_create_function(o)
      [] o.kind = "DropFunctionOp" -> render_drop_function(o)
      [] o.kind = "ReplaceFunctionOp" -> render_replace_function(o)
      [] o.kind = "RevertFunctionOp" -> render_revert_function(o, d)

\* ------------------------------------- a migration: autogenerate, up, down

\* Line 284: the class the diff returned, wrapping the definition.
MakeOp ==
    /\ phase = "diffing"
    /\ pc[1] = "returned"
    /\ result[1] \in {"CreateFunctionOp", "ReplaceFunctionOp"}
    /\ op' = Op(result[1], self[1])
    /\ phase' = "op"
    /\ UNCHANGED <<db, callvars, down, snippet, upgraded, hookvars, names>>

\* The downgrade operation is the reverse of the upgrade operation.
Reverse ==
    /\ phase = "op"
    /\ down' = reverse(op)
    /\ phase' = "reversed"
    /\ UNCHANGED <<db, callvars, op, snippet, upgraded, hookvars, names>>

\* The downgrade operation is rendered into the migration script.
Render ==
    /\ phase = "reversed"
    /\ snippet' = render(down, db)
    /\ phase' = IF snippet' = None THEN "render raised" ELSE "rendered"
    /\ UNCHANGED <<db, callvars, op, down, upgraded, hookvars, names>>

\* The upgrade runs the operation.
Upgrade ==
    /\ phase = "rendered"
    /\ LET done == invoke(db, op)
       IN  /\ db' = done.db
           /\ upgraded' = done.db
           /\ phase' = IF done.ok THEN "upgraded" ELSE "upgrade raised"
    /\ UNCHANGED <<callvars, op, down, snippet, hookvars, names>>

\* The definition is diffed again after the upgrade.
Rediff ==
    /\ phase = "upgraded"
    /\ calls = 1
    /\ Call(1, self[1])
    /\ phase' = "rediffing"
    /\ UNCHANGED <<op, down, snippet, upgraded, hookvars, names>>

Rediffed ==
    /\ phase = "rediffing"
    /\ pc[1] \in {"returned", "raised"}
    /\ phase' = "rediffed"
    /\ UNCHANGED <<db, callvars, op, down, snippet, upgraded, hookvars, names>>

\* The downgrade runs the operation of the rendered snippet.
DowngradeRendered ==
    /\ phase \in {"upgraded", "rediffed"}
    /\ LET done == invoke(db, Op(snippet.kind, snippet.literal))
       IN  /\ db' = done.db
           /\ phase' = IF done.ok THEN "downgraded" ELSE "downgrade raised"
    /\ UNCHANGED <<callvars, op, down, snippet, upgraded, hookvars, names>>

\* The reverse of the upgrade operation is run as it stands.
DowngradeDirect ==
    /\ phase \in {"upgraded", "rediffed"}
    /\ LET done == invoke(db, down)
       IN  /\ db' = done.db
           /\ phase' = IF done.ok THEN "reverse run" ELSE "downgrade raised"
    /\ UNCHANGED <<callvars, op, down, snippet, upgraded, hookvars, names>>

\* The reverse of a DropFunctionOp that ran is run.
Restore ==
    /\ phase \in {"downgraded", "reverse run"}
    /\ down.kind = "DropFunctionOp"
    /\ LET done == invoke(db, reverse(down))
       IN  /\ db' = done.db
           /\ phase' = IF done.ok THEN "restored" ELSE "restore raised"
    /\ UNCHANGED <<callvars, op, down, snippet, upgraded, hookvars, names>>

MigrateNext ==
    \/ (phase = "diffing" /\ calls = 0 /\ Call(1, self[1]) /\ DiffFrame)
    \/ (phase \in {"diffing", "rediffing"} /\ Line70(1) /\ DiffFrame)
    \/ (phase \in {"diffing", "rediffing"} /\ Line79(1) /\ DiffFrame)
    \/ (phase \in {"diffing", "rediffing"} /\ Line80(1) /\ DiffFrame)
    \/ (phase \in {"diffing", "rediffing"} /\ Line83(1) /\ DiffFrame)
    \/ (phase \in {"diffing", "rediffing"} /\ Line86(1) /\ DiffFrame)
    \/ MakeOp
    \/ Reverse
    \/ Render
    \/ Upgrade
    \/ Rediff
    \/ Rediffed
    \/ DowngradeRendered
    \/ DowngradeDirect
    \/ Restore

SpecMigrate == Init /\ [][MigrateNext]_vars

\* --------------------------------------------- register_functions (274-284)

\* Definitions handed to register_functions: a routine that may be live and
\* one that is not, each with two bodies and with a body that is no SQL.
HookFunctions ==
    {PGFunction(<<"p">>, g, d) :
        g \in {<<"f", "(">>, <<"h", "(">>},
        d \in {<<"s">>, <<"s", "s">>, <<>>}}

\* What other comparators may have put in upgrade_ops.ops already.
EarlierOps == {<<>>, <<Op("DropFunctionOp", PGFunction(<<"p">>, <<"k", "(">>, <<>>))>>}

HookInit ==
    /\ pg_functions \in TextsOf(HookFunctions, MaxFuncs)
    /\ db \in InitialDbs(PGFunction(<<"p">>, <<"f", "(">>, <<"s">>))
    /\ upgrade_ops \in EarlierOps
    /\ initial_ops = upgrade_ops
    /\ index = 1
    /\ self = [p \in Procs |-> PGFunction(<<"p">>, <<"f", "(">>, <<"s">>)]
    /\ pc = [p \in Procs |-> IF p = 1 THEN "idle" ELSE "off"]
    /\ NoCall
    /\ NoMigration
    /\ NoNames

HookFrame == UNCHANGED <<migvars, hookvars, names>>

\* Lines 281-282: the loop takes the next definition and diffs it.
HookCall ==
    /\ pc[1] = "idle"
    /\ index <= Len(pg_functions)
    /\ Call(1, pg_functions[index])
    /\ HookFrame

\* Faulty variant of maybe_append: the operation is put first in the list.
maybe_append_first(ops, maybe_op, function) ==
    IF maybe_op # "None" THEN <<Op(maybe_op, function)>> \o ops ELSE ops

\* Lines 283-284.
maybe_append(ops, maybe_op, function) ==
    IF maybe_op # "None" THEN Append(ops, Op(maybe_op, function)) ELSE ops

\* Lines 283-284 and the step to the next definition.  A call that raised
\* ends the hook: nothing catches the exception.
HookAppend ==
    /\ pc[1] = "returned"
    /\ upgrade_ops' = maybe_append(upgrade_ops, result[1], self[1])
    /\ index' = index + 1
    /\ pc' = [pc EXCEPT ![1] = "idle"]
    /\ UNCHANGED <<db, self, db_live, temporary_db_version, result, before,
                   touched, calls, outcomes, first, migvars, pg_functions,
                   initial_ops, names>>

HookNext ==
    \/ HookCall
    \/ (Line70(1) /\ HookFrame)
    \/ (Line79(1) /\ HookFrame)
    \/ (Line80(1) /\ HookFrame)
    \/ (Line83(1) /\ HookFrame)
    \/ (Line86(1) /\ HookFrame)
    \/ HookAppend

SpecHook == HookInit /\ [][HookNext]_vars

\* ------------------------------------------------ to_variable_name (58-65)

Signatures == {g \in TextsOf(SigChars, MaxSigLen) : strip(g) # <<>>}

\* Schemas of the definitions that are named: one schema as written in three
\* ways, and another schema.
NameSchemas == {<<"p">>, <<"P">>, <<" ", "p">>, <<"q">>}

NameInit ==
    /\ \E s1 \in NameSchemas, s2 \in NameSchemas, g1 \in Signatures,
          g2 \in Signatures, d2 \in {<<"s">>, <<"s", "s">>} :
          self = [p \in Procs |-> IF p = 1 THEN PGFunction(s1, g1, <<"s">>)
                                  ELSE PGFunction(s2, g2, d2)]
    /\ db = [schemas |-> {<<"p">>}, routines |-> {}]
    /\ pc = [p \in Procs |-> "off"]
    /\ NoCall
    /\ NoMigration
    /\ NoHook
    /\ NoNames

\* Both definitions are given their variable names.
ToVariableName ==
    /\ names = [p \in Procs |-> None]
    /\ names' = [p \in Procs |-> to_variable_name(self[p])]
    /\ UNCHANGED <<db, callvars, migvars, hookvars>>

NameNext == ToVariableName

SpecName == NameInit /\ [][NameNext]_vars

\* ------------------------------------- two connections diffing at a time

\* Definitions two connections diff: the same routine or two routines of the
\* schema, with one body or another.
ConcFunctions ==
    {PGFunction(<<"p">>, g, d) :
        g \in {<<"f", "(">>, <<"g", "(">>}, d \in {<<"s">>, <<"s", "s">>}}

ConcInit ==
    /\ self \in [Procs -> ConcFunctions]
    /\ db \in InitialDbs(PGFunction(<<"p">>, <<"f", "(">>, <<"s">>))
    /\ pc = [p \in Procs |-> "idle"]
    /\ NoCall
    /\ NoMigration
    /\ NoHook
    /\ NoNames

ConcNext ==
    \/ \E p \in Procs : result[p] = "pending" /\ Call(p, self[p]) /\ DiffFrame
    \/ \E p \in Procs : Line70(p) /\ DiffFrame
    \/ \E p \in Procs : Line79(p) /\ DiffFrame
    \/ \E p \in Procs : Line80(p) /\ DiffFrame
    \/ \E p \in Procs : Line83(p) /\ DiffFrame
    \/ \E p \in Procs : Line86(p) /\ DiffFrame

SpecConc == ConcInit /\ [][ConcNext]_vars

\* ------------------------------------------------------------------ claims

\* The call of connection p has ended, by returning or by raising.
Ended(p) == pc[p] \in {"returned", "raised"}

\* The catalog state of the schema t names: whether the schema exists and
\* the rows of the routines in it.
TargetState(d, t) ==
    [exists |-> DbSchema(t.schema) \in d.schemas,
     routines |-> {r \in d.routines : r.schema = DbSchema(t.schema)}]

\* The live counterpart of the diffed definition before the first call.
Live0 == get_db_definition(self[1], first)

\* The routine the diffed definition names has a row in database d.
Present(d) == \E r \in d.routines : SameRoutine(r, DbRow(self[1]))

IsCreate == op # None /\ op.kind = "CreateFunctionOp"
IsReplace == op # None /\ op.kind = "ReplaceFunctionOp"

\* C1: when a call of get_required_migration_op has ended, by returning
\* None, CreateFunctionOp or ReplaceFunctionOp or by raising on a failed
\* scratch statement, the catalog state of the schema the desired definition
\* names (its routines and their bodies) is what it was when the call began.
C1_TargetSchemaUntouched ==
    Ended(1) => TargetState(db, self[1]) = TargetState(before[1], self[1])

\* C2: when a call that went on to create the scratch schema has ended, by
\* returning or by raising, the scratch schema does not exist.
C2_ScratchDiscarded ==
    (Ended(1) /\ db_live[1] # None) => ScratchSchema \notin db.schemas

\* C3: a desired definition with no match in the live catalog is answered
\* with CreateFunctionOp, and once that Create has run a second call for the
\* same definition is answered with None.
C3_CreateThenNone ==
    /\ (Live0 = None /\ Len(outcomes) >= 1) =>
           outcomes[1].result = "CreateFunctionOp"
    /\ (IsCreate /\ phase = "rediffed") => outcomes[2].result = "None"

\* The body of the desired definition differs from the live body by more
\* than whitespace, the desired definition being one the database accepts.
DiffersAsWritten ==
    /\ Live0 # None
    /\ DbAccepts(self[1].definition)
    /\ ~is_equal_definition(self[1], Live0)

\* The body of the desired definition, as the database stores it and gives
\* it back, differs from the live body by more than whitespace.
DiffersAsStored ==
    /\ Live0 # None
    /\ DbAccepts(self[1].definition)
    /\ _normalize_whitespace(DbDefinition(self[1].definition))
           # _normalize_whitespace(Live0.definition)

\* C4 as claimed: with a live body B1 and a desired body B2 that differs
\* from B1 by more than whitespace, the call is answered with
\* ReplaceFunctionOp, and once that Replace has run a second call is
\* answered with None.
C4_ReplaceThenNone_AsWritten ==
    /\ (DiffersAsWritten /\ Len(outcomes) >= 1) =>
           outcomes[1].result = "ReplaceFunctionOp"
    /\ (DiffersAsWritten /\ phase = "rediffed") => outcomes[2].result = "None"

\* C4 as amended: with a live body B1 and a desired body B2 that, as the
\* database stores it, differs from B1 by more than whitespace, the call is
\* answered with ReplaceFunctionOp, and once that Replace has run a second
\* call is answered with None.
C4_ReplaceThenNone ==
    /\ (DiffersAsStored /\ Len(outcomes) >= 1) =>
           outcomes[1].result = "ReplaceFunctionOp"
    /\ (DiffersAsStored /\ phase = "rediffed") => outcomes[2].result = "None"

\* C4's case: a Replace was asked for, it ran, and the second call ended.
C4_Witness ==
    /\ DiffersAsStored
    /\ phase = "rediffed"
    /\ outcomes[1].result = "ReplaceFunctionOp"
    /\ outcomes[2].result = "None"

\* C5: for a desired definition whose body equals the body of its live
\* counterpart after whitespace normalization, every call is answered with
\* None and leaves the database as it was before the first call.
C5_IdenticalIsNoOp ==
    (Live0 # None /\ is_equal_definition(self[1], Live0)) =>
        /\ \A k \in 1..Len(outcomes) : outcomes[k].result = "None"
        /\ Ended(1) => db = first

\* C6: in the migration of a changed routine the rendered Revert snippet
\* carries the body that was live when it was rendered, B1, and not the body
\* of the Replace's target; and once the Replace and then the snippet's
\* operation have run, the live body of the routine is B1.
C6_RevertRestoresLiveBody ==
    /\ (IsReplace /\ snippet # None) =>
           /\ snippet.literal.definition = Live0.definition
           /\ ~is_equal_definition(snippet.literal, op.target)
    /\ (IsReplace /\ phase = "downgraded") =>
           /\ get_db_definition(self[1], db) # None
           /\ get_db_definition(self[1], db).definition = Live0.definition

\* C6's case: the Replace ran, the snippet's operation ran after it, and the
\* body the Replace had put in place was another than B1.
C6_Witness ==
    /\ IsReplace
    /\ phase = "downgraded"
    /\ get_db_definition(self[1], upgraded).definition # Live0.definition

\* C7: the reverse of a CreateFunctionOp is a DropFunctionOp of the same
\* target and the reverse of that is a CreateFunctionOp of the same target;
\* once the Create and then its reverse have run the routine is absent, and
\* once the reverse of that Drop has run the routine is present with the body
\* it had before it was dropped.
C7_CreateDropSymmetry ==
    /\ (IsCreate /\ down # None) =>
           /\ down = Op("DropFunctionOp", op.target)
           /\ reverse(down) = Op("CreateFunctionOp", op.target)
    /\ (IsCreate /\ phase \in {"downgraded", "reverse run"}) => ~Present(db)
    /\ phase = "restored" =>
           \E r \in db.routines :
               SameRoutine(r, DbRow(self[1])) /\ r \in upgraded.routines

\* C7's case: the Create ran, the Drop ran, and the Drop's reverse ran.
C7_Witness == IsCreate /\ phase = "restored" /\ Present(db) /\ ~Present(first)

\* The operations the first k diffs of the hook ask for, in order.
RECURSIVE Emitted(_)
Emitted(k) ==
    IF k = 0 THEN <<>>
    ELSE Emitted(k - 1) \o
         (IF outcomes[k].result \in {"CreateFunctionOp", "ReplaceFunctionOp"}
          THEN <<Op(outcomes[k].result, pg_functions[k])>>
          ELSE <<>>)

\* C8: the hook diffs the registered definitions once each and in list
\* order, and upgrade_ops.ops is what it was before the hook, followed by one
\* operation for every diff so far that was not answered with None, wrapping
\* that diff's definition, in the order of the list.
C8_HookAppendsInOrder ==
    /\ Len(outcomes) <= Len(pg_functions)
    /\ \A k \in 1..Len(outcomes) : outcomes[k].of = pg_functions[k]
    /\ calls \in {index - 1, index}
    /\ upgrade_ops = initial_ops \o Emitted(index - 1)
    /\ index > Len(pg_functions) => Len(outcomes) = Len(pg_functions)

\* C8's case: the hook went through a list of two definitions, the first
\* diff answered None and the second did not, and the list held an operation
\* before.
C8_Witness ==
    /\ Len(pg_functions) = 2
    /\ index > Len(pg_functions)
    /\ initial_ops # <<>>
    /\ outcomes[1].result = "None"
    /\ outcomes[2].result = "ReplaceFunctionOp"
    /\ Len(upgrade_ops) = 2

Named == names[1] # None /\ names[2] # None

Alone(t, d) ==
    LET live == get_db_definition(t, d)
    IN  IF live = None THEN "CreateFunctionOp"
        ELSE IF ~DbAccepts(t.definition) THEN "raised"
        ELSE IF _normalize_whitespace(DbDefinition(t.definition))
                    = _normalize_whitespace(live.definition)
        THEN "None"
        ELSE "ReplaceFunctionOp"

\* C10: two calls interleaved statement by statement share the one scratch
\* schema, and a call ends otherwise than it does alone on the same database
\* (it raises, or returns another result) only when the other connection ran
\* a statement on the scratch schema while the call held its routine there;
\* C10_Witness is such an interleaving.
C10_OnlySharedScratchDiverts ==
    \A p \in Procs :
        (Ended(p) /\ ~touched[p]) => result[p] = Alone(self[p], first)

\* C10's case: one call raised and the other returned, each otherwise than
\* alone, after the other connection's statements hit its scratch routine.
C10_Witness ==
    \E p \in Procs, q \in Procs :
        /\ Ended(p) /\ touched[p] /\ result[p] = "raised"
        /\ Ended(q) /\ touched[q] /\ result[q] \notin {"raised", Alone(self[q], first)}

====
